---------------------------- MODULE Spec2Model ----------------------------
(***************************************************************************)
(* TracesCleaner: the character-classification and transformation engine   *)
(* of js/watermark-detector.js.                                            *)
(*                                                                         *)
(* A JavaScript string is modelled as a sequence of UTF-16 code units      *)
(* (naturals below 65536); text[i] of the source is text[i+1] here.  An    *)
(* options object is a record whose fields hold "true", "false" or         *)
(* "undefined" (the key is missing).                                       *)
(***************************************************************************)
EXTENDS Integers, Sequences, FiniteSets, TLC

VARIABLES
    text,        \* the text handed to the engine
    phase,       \* "input", or the operation that has run on text
    options,     \* the options object of the operation that has run
    detection,   \* result of detect: [total, chars]
    parts,       \* result of revealHTML: the parts array before join('')
    cleaned,     \* result of clean(text, options)
    recleaned,   \* result of clean(cleaned, options)
    homoglyphs,  \* result of detectHomoglyphs: [total, chars]
    anomalies,   \* result of detectWhitespaceAnomalies: [total, issues]
    injection,   \* inject: its types argument and its locals chars, words, i,
                 \* result and count; result and count are returned
    worker       \* the service worker: the cache and the fetch events

vars == <<text, phase, options, detection, parts, cleaned, recleaned,
          homoglyphs, anomalies, injection, worker>>

(***************************************************************************)
(* Bounds of the model.                                                    *)
(***************************************************************************)
MaxLen == 4

MaxTokens == 3

\* the number of fetch events the service worker handles
MaxEvents == 2

(***************************************************************************)
(* Generic helpers on sequences.                                           *)
(***************************************************************************)
TextsOver(alphabet, n) == UNION {[1..k -> alphabet] : k \in 0..n}

Range(s) == {s[i] : i \in DOMAIN s}

RECURSIVE SumSeq(_)
SumSeq(s) == IF s = <<>> THEN 0 ELSE Head(s) + SumSeq(Tail(s))

RECURSIVE Flatten(_)
Flatten(ss) == IF ss = <<>> THEN <<>> ELSE Head(ss) \o Flatten(Tail(ss))

(***************************************************************************)
(* Invisible character registry, in definition order.                      *)
(***************************************************************************)
INVISIBLE_CHARS ==
  <<
    [ch |-> 9, name |-> "Tab", code |-> "U+0009", category |-> "formatting"],
    [ch |-> 10, name |-> "Line Feed", code |-> "U+000A", category |-> "formatting"],
    [ch |-> 12, name |-> "Form Feed", code |-> "U+000C", category |-> "formatting"],
    [ch |-> 13, name |-> "Carriage Return", code |-> "U+000D", category |-> "formatting"],
    [ch |-> 8203, name |-> "Zero-Width Space", code |-> "U+200B", category |-> "zero-width"],
    [ch |-> 8204, name |-> "Zero-Width Non-Joiner", code |-> "U+200C", category |-> "zero-width"],
    [ch |-> 8205, name |-> "Zero-Width Joiner", code |-> "U+200D", category |-> "zero-width"],
    [ch |-> 8206, name |-> "Left-to-Right Mark", code |-> "U+200E", category |-> "direction"],
    [ch |-> 8207, name |-> "Right-to-Left Mark", code |-> "U+200F", category |-> "direction"],
    [ch |-> 8232, name |-> "Line Separator", code |-> "U+2028", category |-> "separator"],
    [ch |-> 8233, name |-> "Paragraph Separator", code |-> "U+2029", category |-> "separator"],
    [ch |-> 8234, name |-> "Left-to-Right Embedding", code |-> "U+202A", category |-> "direction"],
    [ch |-> 8235, name |-> "Right-to-Left Embedding", code |-> "U+202B", category |-> "direction"],
    [ch |-> 8236, name |-> "Pop Directional Formatting", code |-> "U+202C", category |-> "direction"],
    [ch |-> 8237, name |-> "Left-to-Right Override", code |-> "U+202D", category |-> "direction"],
    [ch |-> 8238, name |-> "Right-to-Left Override", code |-> "U+202E", category |-> "direction"],
    [ch |-> 8288, name |-> "Word Joiner", code |-> "U+2060", category |-> "joiner"],
    [ch |-> 8289, name |-> "Function Application", code |-> "U+2061", category |-> "math-invisible"],
    [ch |-> 8290, name |-> "Invisible Times", code |-> "U+2062", category |-> "math-invisible"],
    [ch |-> 8291, name |-> "Invisible Separator", code |-> "U+2063", category |-> "math-invisible"],
    [ch |-> 8292, name |-> "Invisible Plus", code |-> "U+2064", category |-> "math-invisible"],
    [ch |-> 65279, name |-> "Byte Order Mark (BOM)", code |-> "U+FEFF", category |-> "bom"],
    [ch |-> 173, name |-> "Soft Hyphen", code |-> "U+00AD", category |-> "format"],
    [ch |-> 65024, name |-> "Variation Selector-1", code |-> "U+FE00", category |-> "variation"],
    [ch |-> 65025, name |-> "Variation Selector-2", code |-> "U+FE01", category |-> "variation"],
    [ch |-> 65026, name |-> "Variation Selector-3", code |-> "U+FE02", category |-> "variation"],
    [ch |-> 65027, name |-> "Variation Selector-4", code |-> "U+FE03", category |-> "variation"],
    [ch |-> 65028, name |-> "Variation Selector-5", code |-> "U+FE04", category |-> "variation"],
    [ch |-> 65029, name |-> "Variation Selector-6", code |-> "U+FE05", category |-> "variation"],
    [ch |-> 65030, name |-> "Variation Selector-7", code |-> "U+FE06", category |-> "variation"],
    [ch |-> 65031, name |-> "Variation Selector-8", code |-> "U+FE07", category |-> "variation"],
    [ch |-> 65032, name |-> "Variation Selector-9", code |-> "U+FE08", category |-> "variation"],
    [ch |-> 65033, name |-> "Variation Selector-10", code |-> "U+FE09", category |-> "variation"],
    [ch |-> 65034, name |-> "Variation Selector-11", code |-> "U+FE0A", category |-> "variation"],
    [ch |-> 65035, name |-> "Variation Selector-12", code |-> "U+FE0B", category |-> "variation"],
    [ch |-> 65036, name |-> "Variation Selector-13", code |-> "U+FE0C", category |-> "variation"],
    [ch |-> 65037, name |-> "Variation Selector-14", code |-> "U+FE0D", category |-> "variation"],
    [ch |-> 65038, name |-> "Variation Selector-15", code |-> "U+FE0E", category |-> "variation"],
    [ch |-> 65039, name |-> "Variation Selector-16", code |-> "U+FE0F", category |-> "variation"],
    [ch |-> 65529, name |-> "Interlinear Annotation Anchor", code |-> "U+FFF9", category |-> "annotation"],
    [ch |-> 65530, name |-> "Interlinear Annotation Separator", code |-> "U+FFFA", category |-> "annotation"],
    [ch |-> 65531, name |-> "Interlinear Annotation Terminator", code |-> "U+FFFB", category |-> "annotation"],
    [ch |-> 1564, name |-> "Arabic Letter Mark", code |-> "U+061C", category |-> "direction"],
    [ch |-> 8294, name |-> "Left-to-Right Isolate", code |-> "U+2066", category |-> "direction"],
    [ch |-> 8295, name |-> "Right-to-Left Isolate", code |-> "U+2067", category |-> "direction"],
    [ch |-> 8296, name |-> "First Strong Isolate", code |-> "U+2068", category |-> "direction"],
    [ch |-> 8297, name |-> "Pop Directional Isolate", code |-> "U+2069", category |-> "direction"],
    [ch |-> 6158, name |-> "Mongolian Vowel Separator", code |-> "U+180E", category |-> "format"],
    [ch |-> 4447, name |-> "Hangul Choseong Filler", code |-> "U+115F", category |-> "filler"],
    [ch |-> 4448, name |-> "Hangul Jungseong Filler", code |-> "U+1160", category |-> "filler"],
    [ch |-> 12644, name |-> "Hangul Filler", code |-> "U+3164", category |-> "filler"],
    [ch |-> 65440, name |-> "Halfwidth Hangul Filler", code |-> "U+FFA0", category |-> "filler"],
    [ch |-> 65532, name |-> "Object Replacement Character", code |-> "U+FFFC", category |-> "format"],
    [ch |-> 65533, name |-> "Replacement Character", code |-> "U+FFFD", category |-> "format"],
    [ch |-> 8209, name |-> "Non-Breaking Hyphen", code |-> "U+2011", category |-> "format"],
    [ch |-> 8202, name |-> "Hair Space", code |-> "U+200A", category |-> "space"],
    [ch |-> 8201, name |-> "Thin Space", code |-> "U+2009", category |-> "space"],
    [ch |-> 8200, name |-> "Punctuation Space", code |-> "U+2008", category |-> "space"],
    [ch |-> 8199, name |-> "Figure Space", code |-> "U+2007", category |-> "space"],
    [ch |-> 8198, name |-> "Six-Per-Em Space", code |-> "U+2006", category |-> "space"],
    [ch |-> 8197, name |-> "Four-Per-Em Space", code |-> "U+2005", category |-> "space"],
    [ch |-> 8196, name |-> "Three-Per-Em Space", code |-> "U+2004", category |-> "space"],
    [ch |-> 8195, name |-> "Em Space", code |-> "U+2003", category |-> "space"],
    [ch |-> 8194, name |-> "En Space", code |-> "U+2002", category |-> "space"],
    [ch |-> 8193, name |-> "Em Quad", code |-> "U+2001", category |-> "space"],
    [ch |-> 8192, name |-> "En Quad", code |-> "U+2000", category |-> "space"],
    [ch |-> 160, name |-> "Non-Breaking Space", code |-> "U+00A0", category |-> "space"],
    [ch |-> 8287, name |-> "Medium Mathematical Space", code |-> "U+205F", category |-> "space"],
    [ch |-> 12288, name |-> "Ideographic Space", code |-> "U+3000", category |-> "space"]
  >>

RegisteredChars == {INVISIBLE_CHARS[k].ch : k \in DOMAIN INVISIBLE_CHARS}

\* INVISIBLE_CHARS[ch]: the descriptor of a registered code unit
getCharInfo(ch) ==
    INVISIBLE_CHARS[CHOOSE k \in DOMAIN INVISIBLE_CHARS : INVISIBLE_CHARS[k].ch = ch]

FORMATTING_CATEGORIES == {"formatting"}

SPACE_CATEGORIES == {"space"}

STRIPPABLE_CHARS ==
    {INVISIBLE_CHARS[k].ch : k \in {j \in DOMAIN INVISIBLE_CHARS :
                                        INVISIBLE_CHARS[j].category # "formatting"}}

\* isControl with the DEL test (code === 0x7F) left out
isControl_NoDel(code) ==
    \/ (code >= 0 /\ code <= 8)
    \/ code = 11
    \/ (code >= 14 /\ code <= 31)
    \/ (code >= 128 /\ code <= 159)

\* the generic C0/C1 control ranges tested by detect and revealHTML
isControl(code) ==
    \/ (code >= 0 /\ code <= 8)
    \/ code = 11
    \/ (code >= 14 /\ code <= 31)
    \/ code = 127
    \/ (code >= 128 /\ code <= 159)

\* INVISIBLE_REGEX with the DEL part ('\\u007F') left out
INVISIBLE_REGEX_NoDel(code) ==
    \/ code \in STRIPPABLE_CHARS
    \/ code \in 0..8
    \/ code = 11
    \/ code \in 14..31
    \/ code \in 128..159

\* the character class of INVISIBLE_REGEX
INVISIBLE_REGEX(code) ==
    \/ code \in STRIPPABLE_CHARS
    \/ code \in 0..8
    \/ code = 11
    \/ code \in 14..31
    \/ code = 127
    \/ code \in 128..159

\* SUPPLEMENTARY_REGEX matches the two code units hi, lo
SUPPLEMENTARY_REGEX(hi, lo) ==
    \/ (hi = 56128 /\ lo \in 56321..56447)
    \/ (hi = 56128 /\ lo \in 56576..56815)

(***************************************************************************)
(* Homoglyph table: <<look-alike code unit, plain replacement>>.           *)
(***************************************************************************)
HOMOGLYPHS ==
  <<
    <<1040, 65>>, <<1042, 66>>, <<1057, 67>>, <<1045, 69>>, <<1053, 72>>, <<1050, 75>>,
    <<1052, 77>>, <<1054, 79>>, <<1056, 80>>, <<1058, 84>>, <<1061, 88>>, <<1072, 97>>,
    <<1077, 101>>, <<1086, 111>>, <<1088, 112>>, <<1089, 99>>, <<1091, 121>>, <<1093, 120>>,
    <<1110, 105>>, <<1112, 106>>, <<1211, 104>>, <<1281, 100>>, <<913, 65>>, <<914, 66>>,
    <<917, 69>>, <<918, 90>>, <<919, 72>>, <<921, 73>>, <<922, 75>>, <<924, 77>>,
    <<925, 78>>, <<927, 79>>, <<929, 80>>, <<932, 84>>, <<933, 89>>, <<935, 88>>,
    <<959, 111>>, <<65313, 65>>, <<65314, 66>>, <<65315, 67>>, <<65316, 68>>, <<65317, 69>>,
    <<65318, 70>>, <<65319, 71>>, <<65320, 72>>, <<65321, 73>>, <<65322, 74>>, <<65323, 75>>,
    <<65324, 76>>, <<65325, 77>>, <<65326, 78>>, <<65327, 79>>, <<65328, 80>>, <<65329, 81>>,
    <<65330, 82>>, <<65331, 83>>, <<65332, 84>>, <<65333, 85>>, <<65334, 86>>, <<65335, 87>>,
    <<65336, 88>>, <<65337, 89>>, <<65338, 90>>, <<65345, 97>>, <<65346, 98>>, <<65347, 99>>,
    <<65348, 100>>, <<65349, 101>>, <<65350, 102>>, <<65351, 103>>, <<65352, 104>>, <<65353, 105>>,
    <<65354, 106>>, <<65355, 107>>, <<65356, 108>>, <<65357, 109>>, <<65358, 110>>, <<65359, 111>>,
    <<65360, 112>>, <<65361, 113>>, <<65362, 114>>, <<65363, 115>>, <<65364, 116>>, <<65365, 117>>,
    <<65366, 118>>, <<65367, 119>>, <<65368, 120>>, <<65369, 121>>, <<65370, 122>>, <<8208, 45>>,
    <<8209, 45>>, <<8210, 45>>, <<8211, 45>>, <<8212, 45>>, <<8216, 39>>, <<8217, 39>>,
    <<8220, 34>>, <<8221, 34>>, <<8242, 39>>, <<8243, 34>>, <<160, 32>>, <<8192, 32>>,
    <<8193, 32>>, <<8194, 32>>, <<8195, 32>>, <<8196, 32>>, <<8197, 32>>, <<8198, 32>>,
    <<8199, 32>>, <<8200, 32>>, <<8201, 32>>, <<8202, 32>>, <<8287, 32>>, <<12288, 32>>
  >>

HomoglyphKeys == {HOMOGLYPHS[k][1] : k \in DOMAIN HOMOGLYPHS}

\* HOMOGLYPHS[ch] for a key of the table
HomoglyphOf(ch) ==
    HOMOGLYPHS[CHOOSE k \in DOMAIN HOMOGLYPHS : HOMOGLYPHS[k][1] = ch][2]

\* the character class of HOMOGLYPH_REGEX
HOMOGLYPH_REGEX(code) == code \in HomoglyphKeys

(***************************************************************************)
(* JavaScript values.                                                      *)
(***************************************************************************)
Truthy(v) == v = "true"

HexDigits == <<"0", "1", "2", "3", "4", "5", "6", "7",
               "8", "9", "A", "B", "C", "D", "E", "F">>

\* 'U+' + code.toString(16).toUpperCase().padStart(4, '0')
HexLabel(code) ==
    "U+" \o HexDigits[((code \div 4096) % 16) + 1]
         \o HexDigits[((code \div 256) % 16) + 1]
         \o HexDigits[((code \div 16) % 16) + 1]
         \o HexDigits[(code % 16) + 1]

(***************************************************************************)
(* detect(text, options)                                                   *)
(***************************************************************************)
\* position of ch in the Map chars (insertion order), 0 when absent
MapIndex(chars, ch) ==
    IF \E k \in DOMAIN chars : chars[k].ch = ch
    THEN CHOOSE k \in DOMAIN chars : chars[k].ch = ch
    ELSE 0

\* Record pushing the one-based index i + 1
Record_OneBased(chars, ch, info, i) ==
    LET withEntry == IF MapIndex(chars, ch) = 0
                     THEN Append(chars, [ch |-> ch, info |-> info,
                                         count |-> 0, positions |-> <<>>])
                     ELSE chars
        k == MapIndex(withEntry, ch)
    IN  [withEntry EXCEPT ![k].count = @ + 1, ![k].positions = Append(@, i + 1)]

\* chars.has(ch) || chars.set(ch, {info, count: 0, positions: []});
\* entry.count++; entry.positions.push(i)
Record(chars, ch, info, i) ==
    LET withEntry == IF MapIndex(chars, ch) = 0
                     THEN Append(chars, [ch |-> ch, info |-> info,
                                         count |-> 0, positions |-> <<>>])
                     ELSE chars
        k == MapIndex(withEntry, ch)
    IN  [withEntry EXCEPT ![k].count = @ + 1, ![k].positions = Append(@, i)]

ControlInfo(code) ==
    [ch |-> code, name |-> "Control Character", code |-> HexLabel(code),
     category |-> "control"]

\* DetectStep with total++ missing in the control branch
DetectStep_ControlNotTotalled(acc, ch, i, includeFormatting) ==
    IF ch \in RegisteredChars
    THEN IF ~includeFormatting /\ getCharInfo(ch).category \in FORMATTING_CATEGORIES
         THEN acc
         ELSE [total |-> acc.total + 1,
               chars |-> Record(acc.chars, ch, getCharInfo(ch), i)]
    ELSE IF isControl(ch)
         THEN [total |-> acc.total,
               chars |-> Record(acc.chars, ch, ControlInfo(ch), i)]
         ELSE acc

\* one iteration of the scan loop at zero-based index i
DetectStep(acc, ch, i, includeFormatting) ==
    IF ch \in RegisteredChars
    THEN IF ~includeFormatting /\ getCharInfo(ch).category \in FORMATTING_CATEGORIES
         THEN acc
         ELSE [total |-> acc.total + 1,
               chars |-> Record(acc.chars, ch, getCharInfo(ch), i)]
    ELSE IF isControl(ch)
         THEN [total |-> acc.total + 1,
               chars |-> Record(acc.chars, ch, ControlInfo(ch), i)]
         ELSE acc

RECURSIVE DetectLoop(_, _, _, _)
DetectLoop(txt, i, acc, includeFormatting) ==
    IF i >= Len(txt) THEN acc
    ELSE DetectLoop(txt, i + 1,
                    DetectStep(acc, txt[i + 1], i, includeFormatting),
                    includeFormatting)

detect(txt, opts) ==
    LET includeFormatting == Truthy(opts.includeFormatting)
    IN  DetectLoop(txt, 0, [total |-> 0, chars |-> <<>>], includeFormatting)

(***************************************************************************)
(* escapeHTML(str) and revealHTML(text, options)                           *)
(***************************************************************************)
RECURSIVE ReplaceChar(_, _, _)
ReplaceChar(s, c, repl) ==
    IF s = <<>> THEN <<>>
    ELSE (IF Head(s) = c THEN repl ELSE <<Head(s)>>) \o ReplaceChar(Tail(s), c, repl)

\* "&amp;", "&lt;", "&gt;", "&quot;", "&#039;"
EntAmp == <<38, 97, 109, 112, 59>>
EntLt == <<38, 108, 116, 59>>
EntGt == <<38, 103, 116, 59>>
EntQuot == <<38, 113, 117, 111, 116, 59>>
EntApos == <<38, 35, 48, 51, 57, 59>>

\* escapeHTML replacing & last, so that it escapes its own entities again
escapeHTML_AmpLast(str) ==
    ReplaceChar(ReplaceChar(ReplaceChar(ReplaceChar(ReplaceChar(
        str, 60, EntLt), 62, EntGt), 34, EntQuot), 39, EntApos), 38, EntAmp)

escapeHTML(str) ==
    ReplaceChar(ReplaceChar(ReplaceChar(ReplaceChar(ReplaceChar(
        str, 38, EntAmp), 60, EntLt), 62, EntGt), 34, EntQuot), 39, EntApos)

VisiblePart(buffer) ==
    [cls |-> "char-visible", name |-> "", label |-> "", body |-> escapeHTML(buffer)]

AnnotationPart(ch) ==
    LET info == IF ch \in RegisteredChars THEN getCharInfo(ch) ELSE ControlInfo(ch)
    IN  [cls |-> IF ch \in RegisteredChars /\ info.category \in FORMATTING_CATEGORIES
                 THEN "char-formatting" ELSE "char-hidden",
         name |-> info.name, label |-> info.code, body |-> <<>>]

\* shouldAnnotate annotating formatting characters whatever the option says
shouldAnnotate_FormattingAlways(ch, includeFormatting) ==
    IF ch \in RegisteredChars THEN TRUE ELSE isControl(ch)

shouldAnnotate(ch, includeFormatting) ==
    IF ch \in RegisteredChars
    THEN IF getCharInfo(ch).category \in FORMATTING_CATEGORIES
         THEN includeFormatting
         ELSE TRUE
    ELSE isControl(ch)

\* RevealStep pushing one visible span per character instead of buffering
RevealStep_SpanPerChar(acc, ch, includeFormatting) ==
    IF shouldAnnotate(ch, includeFormatting)
    THEN [parts |-> Append(acc.parts, AnnotationPart(ch)),
          visibleBuffer |-> acc.visibleBuffer]
    ELSE [parts |-> Append(acc.parts, VisiblePart(<<ch>>)),
          visibleBuffer |-> acc.visibleBuffer]

\* acc = [parts, visibleBuffer]
RevealStep(acc, ch, includeFormatting) ==
    IF shouldAnnotate(ch, includeFormatting)
    THEN [parts |-> (IF acc.visibleBuffer # <<>>
                     THEN Append(acc.parts, VisiblePart(acc.visibleBuffer))
                     ELSE acc.parts) \o <<AnnotationPart(ch)>>,
          visibleBuffer |-> IF acc.visibleBuffer # <<>> THEN <<>> ELSE acc.visibleBuffer]
    ELSE [parts |-> acc.parts, visibleBuffer |-> Append(acc.visibleBuffer, ch)]

RECURSIVE RevealLoop(_, _, _, _)
RevealLoop(txt, i, acc, includeFormatting) ==
    IF i >= Len(txt) THEN acc
    ELSE RevealLoop(txt, i + 1, RevealStep(acc, txt[i + 1], includeFormatting),
                    includeFormatting)

revealHTML(txt, opts) ==
    LET includeFormatting == opts.includeFormatting # "false"
        acc == RevealLoop(txt, 0, [parts |-> <<>>, visibleBuffer |-> <<>>],
                          includeFormatting)
    IN  IF acc.visibleBuffer # <<>>
        THEN Append(acc.parts, VisiblePart(acc.visibleBuffer))
        ELSE acc.parts

(***************************************************************************)
(* detectHomoglyphs(text) and isExpectedChar(text, index, ch)              *)
(***************************************************************************)
\* isExpectedChar without the two dashes (0x2013, 0x2014)
isExpectedChar_NoDashes(txt, index, ch) ==
    \/ ch = 160
    \/ ch = 8216
    \/ ch = 8217
    \/ ch = 8220
    \/ ch = 8221

isExpectedChar(txt, index, ch) ==
    \/ ch = 160
    \/ ch = 8216
    \/ ch = 8217
    \/ ch = 8220
    \/ ch = 8221
    \/ ch = 8211
    \/ ch = 8212

\* chars.has(ch) || chars.set(ch, {original, code, replacement, count: 0});
\* chars.get(ch).count++
RecordHomoglyph(chars, ch) ==
    LET withEntry == IF MapIndex(chars, ch) = 0
                     THEN Append(chars, [ch |-> ch, code |-> HexLabel(ch),
                                         replacement |-> HomoglyphOf(ch), count |-> 0])
                     ELSE chars
        k == MapIndex(withEntry, ch)
    IN  [withEntry EXCEPT ![k].count = @ + 1]

RECURSIVE HomoglyphLoop(_, _, _)
HomoglyphLoop(txt, i, acc) ==
    IF i >= Len(txt) THEN acc
    ELSE LET ch == txt[i + 1]
         IN  HomoglyphLoop(txt, i + 1,
                 IF ch \in HomoglyphKeys /\ ~isExpectedChar(txt, i, ch)
                 THEN [total |-> acc.total + 1,
                       chars |-> RecordHomoglyph(acc.chars, ch)]
                 ELSE acc)

detectHomoglyphs(txt) == HomoglyphLoop(txt, 0, [total |-> 0, chars |-> <<>>])

(***************************************************************************)
(* The regular expressions of clean and detectWhitespaceAnomalies, as the  *)
(* scans they perform (global, leftmost, non-overlapping matches).         *)
(***************************************************************************)
\* index of the first ch at or after position i (1-based), 0 when there is none
RECURSIVE IndexFrom(_, _, _)
IndexFrom(s, ch, i) ==
    IF i > Len(s) THEN 0
    ELSE IF s[i] = ch THEN i ELSE IndexFrom(s, ch, i + 1)

\* result.replace(/<[^>]*>/g, '')
RECURSIVE StripTagsFrom(_, _)
StripTagsFrom(s, i) ==
    IF i > Len(s) THEN <<>>
    ELSE IF s[i] = 60 /\ IndexFrom(s, 62, i + 1) # 0
         THEN StripTagsFrom(s, IndexFrom(s, 62, i + 1) + 1)
         ELSE <<s[i]>> \o StripTagsFrom(s, i + 1)

StripTags(s) == StripTagsFrom(s, 1)

\* Canonicalize of the i flag (no u flag): ASCII letters compare by upper case
Canonicalize(c) == IF c \in 97..122 THEN c - 32 ELSE c

MatchesAt(s, i, pat) ==
    /\ i + Len(pat) - 1 <= Len(s)
    /\ \A k \in 1..Len(pat) : Canonicalize(s[i + k - 1]) = Canonicalize(pat[k])

\* result.replace(/pat/gi, repl) for a literal pattern
RECURSIVE ReplaceAllFrom(_, _, _, _)
ReplaceAllFrom(s, i, pat, repl) ==
    IF i > Len(s) THEN <<>>
    ELSE IF MatchesAt(s, i, pat)
         THEN repl \o ReplaceAllFrom(s, i + Len(pat), pat, repl)
         ELSE <<s[i]>> \o ReplaceAllFrom(s, i + 1, pat, repl)

ReplaceAll(s, pat, repl) == ReplaceAllFrom(s, 1, pat, repl)

\* the patterns "&nbsp;", "&amp;", "&lt;", "&gt;", "&quot;", "&#39;"
PatNbsp == <<38, 110, 98, 115, 112, 59>>
PatAmp == <<38, 97, 109, 112, 59>>
PatLt == <<38, 108, 116, 59>>
PatGt == <<38, 103, 116, 59>>
PatQuot == <<38, 113, 117, 111, 116, 59>>
PatApos == <<38, 35, 51, 57, 59>>

DecodeEntities(s) ==
    ReplaceAll(ReplaceAll(ReplaceAll(ReplaceAll(ReplaceAll(ReplaceAll(
        s, PatNbsp, <<32>>), PatAmp, <<38>>), PatLt, <<60>>), PatGt, <<62>>),
        PatQuot, <<34>>), PatApos, <<39>>)

\* RemoveInvisible with the formatting characters in the class as well (no
\* category filter at lines 119-121)
RemoveInvisible_WithFormatting(s) ==
    SelectSeq(s, LAMBDA c : ~(INVISIBLE_REGEX(c) \/ c \in RegisteredChars))

\* result.replace(INVISIBLE_REGEX, '')
RemoveInvisible(s) == SelectSeq(s, LAMBDA c : ~INVISIBLE_REGEX(c))

\* result.replace(SUPPLEMENTARY_REGEX, '')
RECURSIVE RemoveSupplementaryFrom(_, _)
RemoveSupplementaryFrom(s, i) ==
    IF i > Len(s) THEN <<>>
    ELSE IF i < Len(s) /\ SUPPLEMENTARY_REGEX(s[i], s[i + 1])
         THEN RemoveSupplementaryFrom(s, i + 2)
         ELSE <<s[i]>> \o RemoveSupplementaryFrom(s, i + 1)

RemoveSupplementary(s) == RemoveSupplementaryFrom(s, 1)

(***************************************************************************)
(* result.normalize('NFC') on the code units the model uses: the canonical *)
(* singleton mappings, the compositions with U+0301 COMBINING ACUTE ACCENT *)
(* (the only combining mark of the model's alphabets), and the canonical   *)
(* decomposition of a composition exclusion, which NFC leaves decomposed.  *)
(***************************************************************************)
\* <<code unit, its canonical singleton decomposition>>
NFCSingletons ==
    {<<8192, 8194>>, <<8193, 8195>>, <<8490, 75>>, <<8491, 197>>, <<8486, 937>>}

\* <<starter, composite of starter + U+0301>>
NFCAcute ==
    {<<65, 193>>, <<69, 201>>, <<75, 7728>>, <<97, 225>>, <<101, 233>>,
     <<111, 243>>, <<197, 506>>, <<913, 902>>, <<917, 904>>, <<937, 911>>,
     <<959, 972>>, <<1050, 1036>>}

\* <<code unit, its canonical decomposition>> for a composition exclusion:
\* U+0958 DEVANAGARI LETTER QA = U+0915 KA + U+093C NUKTA
NFCExclusions == {<<2392, <<2325, 2364>>>>}

NFCSingle(c) ==
    IF \E p \in NFCSingletons : p[1] = c
    THEN (CHOOSE p \in NFCSingletons : p[1] = c)[2]
    ELSE c

NFCComposable(c) == \E p \in NFCAcute : p[1] = c

\* the code units one code unit of the input contributes when nothing composes
NFCDecompose(c) ==
    IF \E p \in NFCExclusions : p[1] = c
    THEN (CHOOSE p \in NFCExclusions : p[1] = c)[2]
    ELSE <<NFCSingle(c)>>

RECURSIVE NFCFrom(_, _, _)
NFCFrom(s, i, out) ==
    IF i > Len(s) THEN out
    ELSE LET c == NFCSingle(s[i])
         IN  IF c = 769 /\ out # <<>> /\ NFCComposable(out[Len(out)])
             THEN NFCFrom(s, i + 1,
                      [out EXCEPT ![Len(out)] =
                          (CHOOSE p \in NFCAcute : p[1] = out[Len(out)])[2]])
             ELSE NFCFrom(s, i + 1, out \o NFCDecompose(s[i]))

NFC(s) == NFCFrom(s, 1, <<>>)

\* FixHomoglyphs without the isExpectedChar exemption
FixHomoglyphs_NoExemption(s) ==
    [i \in DOMAIN s |-> IF HOMOGLYPH_REGEX(s[i]) THEN HomoglyphOf(s[i]) ELSE s[i]]

\* result.replace(HOMOGLYPH_REGEX, (ch) => isExpectedChar(result, 0, ch)
\*                                          ? ch : (HOMOGLYPHS[ch] || ch))
FixHomoglyphs(s) ==
    [i \in DOMAIN s |->
        IF HOMOGLYPH_REGEX(s[i])
        THEN IF isExpectedChar(s, 0, s[i]) THEN s[i] ELSE HomoglyphOf(s[i])
        ELSE s[i]]

\* the line terminators at which $ matches under the m flag
LineTerminators == {10, 13, 8232, 8233}

\* [ \t] with the line feed in the class as well ([ \t\n])
IsBlank_WithLineFeed(c) == c = 32 \/ c = 9 \/ c = 10

\* [ \t]
IsBlank(c) == c = 32 \/ c = 9

\* AtLineEnd without the m flag: $ holds at the end of the text only
AtLineEnd_NoMultiline(s, i) == i = Len(s)

\* $ (m flag) holds right after position i
AtLineEnd(s, i) == i = Len(s) \/ s[i + 1] \in LineTerminators

\* the run of [ \t] through position i reaches the end of its line
RECURSIVE BlankToLineEnd(_, _)
BlankToLineEnd(s, i) ==
    /\ IsBlank(s[i])
    /\ (AtLineEnd(s, i) \/ BlankToLineEnd(s, i + 1))

\* result.replace(/[ \t]+$/gm, '')
RECURSIVE StripTrailingFrom(_, _)
StripTrailingFrom(s, i) ==
    IF i > Len(s) THEN <<>>
    ELSE IF BlankToLineEnd(s, i)
         THEN StripTrailingFrom(s, i + 1)
         ELSE <<s[i]>> \o StripTrailingFrom(s, i + 1)

StripTrailing(s) == StripTrailingFrom(s, 1)

\* length of the run of U+0020 starting at position i
RECURSIVE SpaceRun(_, _)
SpaceRun(s, i) ==
    IF i > Len(s) \/ s[i] # 32 THEN 0 ELSE 1 + SpaceRun(s, i + 1)

\* result.replace(/ {2,}/g, ' ')
RECURSIVE CollapseFrom(_, _)
CollapseFrom(s, i) ==
    IF i > Len(s) THEN <<>>
    ELSE IF SpaceRun(s, i) >= 2
         THEN <<32>> \o CollapseFrom(s, i + SpaceRun(s, i))
         ELSE <<s[i]>> \o CollapseFrom(s, i + 1)

CollapseSpaces(s) == CollapseFrom(s, 1)

(***************************************************************************)
(* clean(text, options)                                                    *)
(***************************************************************************)
\* clean without the test of options.normalize: NFC is always applied
clean_AlwaysNormalize(txt, opts) ==
    LET r1 == IF Truthy(opts.stripHTML) THEN DecodeEntities(StripTags(txt)) ELSE txt
        r2 == RemoveInvisible(r1)
        r3 == RemoveSupplementary(r2)
        r4 == NFC(r3)
        r5 == IF Truthy(opts.fixHomoglyphs) THEN FixHomoglyphs(r4) ELSE r4
        r6 == StripTrailing(r5)
    IN  CollapseSpaces(r6)

clean(txt, opts) ==
    LET r1 == IF Truthy(opts.stripHTML) THEN DecodeEntities(StripTags(txt)) ELSE txt
        r2 == RemoveInvisible(r1)
        r3 == RemoveSupplementary(r2)
        r4 == IF opts.normalize # "false" THEN NFC(r3) ELSE r3
        r5 == IF Truthy(opts.fixHomoglyphs) THEN FixHomoglyphs(r4) ELSE r4
        r6 == StripTrailing(r5)
    IN  CollapseSpaces(r6)

(***************************************************************************)
(* detectWhitespaceAnomalies(text)                                         *)
(***************************************************************************)
\* \s taken for the ordinary space alone: (?<=[^ ]) {2,}(?=[^ ])
IsWhiteSpace_SpaceOnly(c) == c = 32

\* the class \s of JavaScript regular expressions
IsWhiteSpace(c) ==
    \/ c \in {9, 10, 11, 12, 13, 32, 160, 5760, 8232, 8233, 8239, 8287, 12288, 65279}
    \/ c \in 8192..8202

\* text.match(/[ \t]+$/gm): one match per run of [ \t] that ends its line
TrailingMatches(s) ==
    Cardinality({i \in DOMAIN s :
        /\ BlankToLineEnd(s, i)
        /\ (i = 1 \/ ~IsBlank(s[i - 1]))})

\* text.match(/(?<=\S) {2,}(?=\S)/g): one match per run of two or more spaces
\* with a non-whitespace character right before and right after it
DoubleSpaceMatches(s) ==
    Cardinality({i \in DOMAIN s :
        /\ i > 1
        /\ ~IsWhiteSpace(s[i - 1])
        /\ SpaceRun(s, i) >= 2
        /\ i + SpaceRun(s, i) <= Len(s)
        /\ ~IsWhiteSpace(s[i + SpaceRun(s, i)])})

hasCRLF(s) == \E i \in DOMAIN s : s[i] = 13 /\ i < Len(s) /\ s[i + 1] = 10

hasLF(s)   == \E i \in DOMAIN s : s[i] = 10 /\ (i = 1 \/ s[i - 1] # 13)

Occurrences(s, ch) == Cardinality({i \in DOMAIN s : s[i] = ch})

Issue(type, count, description) ==
    [type |-> type, count |-> count, description |-> description]

\* the registry entries of category 'space', in definition order
spaceChars == SelectSeq(INVISIBLE_CHARS, LAMBDA e : e.category = "space")

RECURSIVE SpecialSpaceIssues(_, _)
SpecialSpaceIssues(s, k) ==
    IF k > Len(spaceChars) THEN <<>>
    ELSE (IF Occurrences(s, spaceChars[k].ch) > 0
          THEN <<Issue("special-space", Occurrences(s, spaceChars[k].ch),
                       spaceChars[k].name \o " (" \o spaceChars[k].code \o ")")>>
          ELSE <<>>) \o SpecialSpaceIssues(s, k + 1)

\* detectWhitespaceAnomalies with 'total += 1' of the mixed-endings check
\* (line 461) left out
detectWhitespaceAnomalies_MixedNotTotalled(s) ==
    LET trailing == IF TrailingMatches(s) > 0
                    THEN <<Issue("trailing-space", TrailingMatches(s),
                                 "Trailing spaces on lines")>>
                    ELSE <<>>
        double   == IF DoubleSpaceMatches(s) > 0
                    THEN <<Issue("double-space", DoubleSpaceMatches(s),
                                 "Multiple consecutive spaces")>>
                    ELSE <<>>
        mixed    == IF hasCRLF(s) /\ hasLF(s)
                    THEN <<Issue("mixed-endings", 1, "Mixed line endings (CRLF + LF)")>>
                    ELSE <<>>
        issues   == trailing \o double \o mixed \o SpecialSpaceIssues(s, 1)
    IN  [total  |-> TrailingMatches(s) + DoubleSpaceMatches(s)
                    + SumSeq([k \in DOMAIN spaceChars |->
                                 Occurrences(s, spaceChars[k].ch)]),
         issues |-> issues]

detectWhitespaceAnomalies(s) ==
    LET trailing == IF TrailingMatches(s) > 0
                    THEN <<Issue("trailing-space", TrailingMatches(s),
                                 "Trailing spaces on lines")>>
                    ELSE <<>>
        double   == IF DoubleSpaceMatches(s) > 0
                    THEN <<Issue("double-space", DoubleSpaceMatches(s),
                                 "Multiple consecutive spaces")>>
                    ELSE <<>>
        mixed    == IF hasCRLF(s) /\ hasLF(s)
                    THEN <<Issue("mixed-endings", 1, "Mixed line endings (CRLF + LF)")>>
                    ELSE <<>>
        issues   == trailing \o double \o mixed \o SpecialSpaceIssues(s, 1)
    IN  [total  |-> TrailingMatches(s) + DoubleSpaceMatches(s)
                    + (IF hasCRLF(s) /\ hasLF(s) THEN 1 ELSE 0)
                    + SumSeq([k \in DOMAIN spaceChars |->
                                 Occurrences(s, spaceChars[k].ch)]),
         issues |-> issues]

(***************************************************************************)
(* inject(text, types).  A value of Math.random() is modelled in tenths:   *)
(* the draw k stands for k / 10.                                           *)
(***************************************************************************)
\* InjectChars taking a missing zwsp flag for an enabled one (zwsp !== false)
InjectChars_MissingEnabled(types) ==
    (IF types.zwsp # "false" THEN <<8203>> ELSE <<>>)
        \o (IF Truthy(types.zwnj) THEN <<8204>> ELSE <<>>)
        \o (IF Truthy(types.bom) THEN <<65279>> ELSE <<>>)
        \o (IF Truthy(types.invisSep) THEN <<8289, 8290, 8291, 8292>> ELSE <<>>)

\* the chars array built from the type flags
InjectChars(types) ==
    (IF Truthy(types.zwsp) THEN <<8203>> ELSE <<>>)
        \o (IF Truthy(types.zwnj) THEN <<8204>> ELSE <<>>)
        \o (IF Truthy(types.bom) THEN <<65279>> ELSE <<>>)
        \o (IF Truthy(types.invisSep) THEN <<8289, 8290, 8291, 8292>> ELSE <<>>)

\* length of the run of \s starting at position i
RECURSIVE WhiteRun(_, _)
WhiteRun(s, i) ==
    IF i > Len(s) \/ ~IsWhiteSpace(s[i]) THEN 0 ELSE 1 + WhiteRun(s, i + 1)

\* text.split(/(\s+)/): the pieces between the whitespace runs, and the runs
RECURSIVE SplitFrom(_, _, _)
SplitFrom(s, i, piece) ==
    IF i > Len(s) THEN <<piece>>
    ELSE IF IsWhiteSpace(s[i])
         THEN <<piece, SubSeq(s, i, i + WhiteRun(s, i) - 1)>>
                  \o SplitFrom(s, i + WhiteRun(s, i), <<>>)
         ELSE SplitFrom(s, i + 1, Append(piece, s[i]))

SplitWords(s) == SplitFrom(s, 1, <<>>)

\* Math.random() < 0.6 and Math.random() < 0.3, for the draw k
BelowSixTenths(k) == k < 6

BelowThreeTenths(k) == k < 3

\* Math.floor(Math.random() * n), for the draw k
FloorTimes(k, n) == (k * n) \div 10

\* chars[Math.floor(Math.random() * chars.length)]
PickChar(chars, k) == chars[FloorTimes(k, Len(chars)) + 1]

\* result.slice(0, at) + char + result.slice(at)
InsertAt(s, at, ch) == SubSeq(s, 1, at) \o <<ch>> \o SubSeq(s, at + 1, Len(s))

\* InjectIteration with count++ of the insertion inside a word (line 572)
\* left out
InjectIteration_InsideNotCounted(inj, r1, c1, r2, p, c2) ==
    LET word    == inj.words[inj.i + 1]
        between == inj.i < Len(inj.words) - 1 /\ BelowSixTenths(r1)
        res1    == IF between
                   THEN inj.result \o word \o <<PickChar(inj.chars, c1)>>
                   ELSE inj.result \o word
        cnt1    == IF between THEN inj.count + 1 ELSE inj.count
        inside  == Len(word) > 4 /\ BelowThreeTenths(r2)
        pos     == FloorTimes(p, Len(word) - 2) + 1
    IN  [inj EXCEPT
            !.i = @ + 1,
            !.result = IF inside
                       THEN InsertAt(res1, Len(res1) - Len(word) + pos,
                                     PickChar(inj.chars, c2))
                       ELSE res1,
            !.count = cnt1]

\* one iteration of the loop over words, with the draws it consumes:
\* r1, c1 for the insertion after the word, r2, p, c2 for the one inside it
InjectIteration(inj, r1, c1, r2, p, c2) ==
    LET word    == inj.words[inj.i + 1]
        between == inj.i < Len(inj.words) - 1 /\ BelowSixTenths(r1)
        res1    == IF between
                   THEN inj.result \o word \o <<PickChar(inj.chars, c1)>>
                   ELSE inj.result \o word
        cnt1    == IF between THEN inj.count + 1 ELSE inj.count
        inside  == Len(word) > 4 /\ BelowThreeTenths(r2)
        pos     == FloorTimes(p, Len(word) - 2) + 1
    IN  [inj EXCEPT
            !.i = @ + 1,
            !.result = IF inside
                       THEN InsertAt(res1, Len(res1) - Len(word) + pos,
                                     PickChar(inj.chars, c2))
                       ELSE res1,
            !.count = IF inside THEN cnt1 + 1 ELSE cnt1]

(***************************************************************************)
(* The engine as a state machine: a caller hands a text to one operation.  *)
(***************************************************************************)
NoOptions ==
    [includeFormatting |-> "undefined", normalize |-> "undefined",
     fixHomoglyphs |-> "undefined", stripHTML |-> "undefined"]

NoDetection == [total |-> 0, chars |-> <<>>]

\* the options objects a caller passes to detect and revealHTML
DetectOptions ==
    {[NoOptions EXCEPT !.includeFormatting = f] : f \in {"true", "false", "undefined"}}

\* the options objects a caller passes to clean
CleanOptions ==
    {[NoOptions EXCEPT !.normalize = n, !.fixHomoglyphs = h, !.stripHTML = t] :
        n \in {"undefined", "false"}, h \in {"undefined", "true"},
        t \in {"undefined", "true"}}

\* code units of the texts handed to detect: tab, LF, 'a', U+001B and U+007F
\* (generic controls), U+200B and U+FEFF (registered)
ScanAlphabet == {9, 10, 97, 27, 127, 8203, 65279}

\* code units of the texts handed to revealHTML: 'a', the five characters
\* escapeHTML escapes (& < > " '), tab, U+001B and U+200B
RevealAlphabet == {97, 38, 60, 62, 34, 39, 9, 27, 8203}

\* pieces of the texts handed to clean: space, tab, LF, 'a', U+200B and U+007F
\* (stripped), U+2003 (a registered space that is also a homoglyph key),
\* U+0430 (Cyrillic a), U+2019 (an exempt quote), U+0301 (combining acute),
\* "<", ">", "&nbsp;" and "a  a" (a double space between words)
CleanTokens ==
    {<<32>>, <<9>>, <<10>>, <<97>>, <<8203>>, <<127>>, <<8195>>, <<1072>>,
     <<8217>>, <<769>>, <<60>>, <<62>>, PatNbsp, <<97, 32, 32, 97>>}

\* pieces of the texts cleaned twice: 'a', space, U+0430, U+0301, the
\* surrogates U+DB40 and U+DC01, "<", ">", "&", "amp;", "&amp;", "&LT;",
\* "&gt;" and "&nbsp;"
RecleanTokens ==
    {<<97>>, <<32>>, <<1072>>, <<769>>, <<56128>>, <<56321>>, <<60>>, <<62>>,
     <<38>>, <<97, 109, 112, 59>>, PatAmp, <<38, 76, 84, 59>>, PatGt, PatNbsp}

\* code units of the texts cleaned as raw UTF-16: 'a', space, tab, LF,
\* U+200B, the high surrogate U+DB40 and the low surrogate U+DC01 (together
\* U+E0001 LANGUAGE TAG), and U+0958 (DEVANAGARI LETTER QA)
UnitAlphabet == {97, 32, 9, 10, 8203, 56128, 56321, 2392}

\* code units of the texts cleaned for their formatting characters: tab, LF,
\* FF, CR, space, 'a' and U+200B
FormattingAlphabet == {9, 10, 12, 13, 32, 97, 8203}

\* code units of the texts handed to detectHomoglyphs: 'a', U+0430 (Cyrillic
\* a), U+FF21 (fullwidth A), U+2003 (em space), and the exempt U+00A0,
\* U+2019 and U+2013
HomoglyphAlphabet == {97, 1072, 65313, 8195, 160, 8217, 8211}

\* pieces of the texts handed to detectWhitespaceAnomalies: space, tab, LF,
\* CR, 'a', U+2003 and U+00A0 (registered spaces), CR LF, and "a  " (a word
\* followed by two spaces)
WhitespaceTokens ==
    {<<32>>, <<9>>, <<10>>, <<13>>, <<97>>, <<8195>>, <<160>>, <<13, 10>>,
     <<97, 32, 32>>}

\* pieces of the texts cleaned for their length: 'a', space, U+200B, U+0430,
\* U+0301, U+0958 (NFC decomposes it), U+212B (NFC maps it to U+00C5), the
\* surrogates U+DB40 and U+DC01, "<", ">", "&nbsp;" and "&amp;"
LengthTokens ==
    {<<97>>, <<32>>, <<8203>>, <<1072>>, <<769>>, <<2392>>, <<8491>>,
     <<56128>>, <<56321>>, <<60>>, <<62>>, PatNbsp, PatAmp}

\* inject's types argument with every flag missing, and inject before a call
NoTypes ==
    [zwsp |-> "undefined", zwnj |-> "undefined", bom |-> "undefined",
     invisSep |-> "undefined"]

NoInjection ==
    [types |-> NoTypes, chars |-> <<>>, words |-> <<>>, i |-> 0,
     result |-> <<>>, count |-> 0]

\* pieces of the texts handed to inject: 'a', a space, a word of five
\* letters and a run of five spaces
InjectTokens ==
    {<<97>>, <<32>>, <<97, 98, 99, 100, 101>>, <<32, 32, 32, 32, 32>>}

\* the types objects a caller passes to inject: nothing enabled (flags
\* missing, or false), one type, and two types that give five characters
InjectTypes ==
    {NoTypes,
     [zwsp |-> "false", zwnj |-> "false", bom |-> "undefined", invisSep |-> "false"],
     [NoTypes EXCEPT !.zwsp = "true"],
     [zwsp |-> "false", zwnj |-> "undefined", bom |-> "true", invisSep |-> "true"]}

\* the values of Math.random() the model draws, in tenths: for the two
\* probability tests and the offset, and for the choice of a character
RandomDraws == {0, 5, 9}

CharDraws == {0, 9}

(***************************************************************************)
(* The service worker (sw.js): its cache and the requests it is asked for. *)
(***************************************************************************)
ASSETS ==
    {"./", "./index.html", "./invisible-chars.html", "./statistical-watermarks.html",
     "./css/styles.css", "./js/watermark-detector.js", "./js/app.js",
     "./manifest.json", "./img/icon.svg", "./img/og-image.svg"}

\* the URLs asked for that are not among the assets
OtherURLs == {"./about.html", "./api/report"}

\* undefined, where a response is expected
NoResponse == [status |-> 0, body |-> "undefined"]

\* what cache.addAll(ASSETS) stored for an asset at install time
InstalledResponse == [status |-> 200, body |-> "installed"]

\* the responses the network gives
NetworkResponses == {[status |-> s, body |-> "network"] : s \in {200, 404}}

\* the requests of the fetch events: an asset and a page that is not one,
\* both navigations, and a resource asked for with GET and with POST
FetchRequests ==
    {[url |-> "./index.html", method |-> "GET", destination |-> "document"],
     [url |-> "./about.html", method |-> "GET", destination |-> "document"],
     [url |-> "./api/report", method |-> "GET", destination |-> ""],
     [url |-> "./api/report", method |-> "POST", destination |-> ""]}

\* the cache after install: caches.open(CACHE_NAME).then(cache => cache.addAll(ASSETS))
InstalledCache ==
    [u \in ASSETS \cup OtherURLs |-> IF u \in ASSETS THEN InstalledResponse ELSE NoResponse]

InstalledWorker == [cache |-> InstalledCache, events |-> <<>>]

\* before install: nothing cached, no fetch event
NoWorker == [cache |-> <<>>, events |-> <<>>]

\* caches.match(request): the stored response of a GET request, else undefined
CachesMatch(cache, request) ==
    IF request.method = "GET" THEN cache[request.url] ELSE NoResponse

\* the test before cache.put with the test of the status left out
ShouldCache_AnyStatus(request, response) == request.method = "GET"

\* event.request.method === 'GET' && response.status === 200
ShouldCache(request, response) == request.method = "GET" /\ response.status = 200

\* a fetch event as it arrives: nothing matched, fetched, answered or written
NewEvent(request) ==
    [request |-> request, pc |-> "match", cached |-> NoResponse,
     response |-> NoResponse, answer |-> NoResponse, fetched |-> FALSE,
     wrote |-> FALSE]

\* the texts made of at most n pieces
TextsOfTokens(tokens, n) == {Flatten(ts) : ts \in TextsOver(tokens, n)}

\* the results of the engine before any call
InitEngine ==
    /\ phase = "input"
    /\ options = NoOptions
    /\ detection = NoDetection
    /\ parts = <<>>
    /\ cleaned = <<>>
    /\ recleaned = <<>>
    /\ homoglyphs = NoDetection
    /\ anomalies = [total |-> 0, issues |-> <<>>]
    /\ injection = NoInjection

\* a page on which the service worker is not installed yet
InitCommon ==
    /\ InitEngine
    /\ worker = NoWorker

InitScan ==
    /\ text \in TextsOver(ScanAlphabet, MaxLen)
    /\ InitCommon

InitReveal ==
    /\ text \in TextsOver(RevealAlphabet, MaxLen)
    /\ InitCommon

InitClean ==
    /\ text \in TextsOfTokens(CleanTokens, MaxTokens)
    /\ InitCommon

InitReclean ==
    /\ text \in TextsOfTokens(RecleanTokens, MaxTokens)
    /\ InitCommon

InitUnits ==
    /\ text \in TextsOver(UnitAlphabet, MaxLen)
    /\ InitCommon

InitFormatting ==
    /\ text \in TextsOver(FormattingAlphabet, MaxLen)
    /\ InitCommon

InitHomoglyphs ==
    /\ text \in TextsOver(HomoglyphAlphabet, MaxLen)
    /\ InitCommon

InitWhitespace ==
    /\ text \in TextsOfTokens(WhitespaceTokens, MaxTokens)
    /\ InitCommon

InitLength ==
    /\ text \in TextsOfTokens(LengthTokens, MaxTokens)
    /\ InitCommon

InitInject ==
    /\ text \in TextsOfTokens(InjectTokens, MaxTokens)
    /\ InitCommon

Detect(opts) ==
    /\ phase = "input"
    /\ phase' = "detect"
    /\ options' = opts
    /\ detection' = detect(text, opts)
    /\ UNCHANGED <<text, parts, cleaned, recleaned, homoglyphs, anomalies, injection, worker>>

Reveal(opts) ==
    /\ phase = "input"
    /\ phase' = "revealHTML"
    /\ options' = opts
    /\ parts' = revealHTML(text, opts)
    /\ UNCHANGED <<text, detection, cleaned, recleaned, homoglyphs, anomalies, injection, worker>>

Clean(opts) ==
    /\ phase = "input"
    /\ phase' = "clean"
    /\ options' = opts
    /\ cleaned' = clean(text, opts)
    /\ UNCHANGED <<text, detection, parts, recleaned, homoglyphs, anomalies, injection, worker>>

\* the caller feeds the cleaned text back with the same options
CleanAgain ==
    /\ phase = "clean"
    /\ phase' = "clean-again"
    /\ recleaned' = clean(cleaned, options)
    /\ UNCHANGED <<text, options, detection, parts, cleaned, homoglyphs, anomalies, injection, worker>>

DetectHomoglyphs ==
    /\ phase = "input"
    /\ phase' = "detectHomoglyphs"
    /\ homoglyphs' = detectHomoglyphs(text)
    /\ UNCHANGED <<text, options, detection, parts, cleaned, recleaned, anomalies, injection, worker>>

DetectWhitespaceAnomalies ==
    /\ phase = "input"
    /\ phase' = "detectWhitespaceAnomalies"
    /\ anomalies' = detectWhitespaceAnomalies(text)
    /\ UNCHANGED <<text, options, detection, parts, cleaned, recleaned, homoglyphs, injection, worker>>

\* inject up to its early return, or up to the start of its loop
InjectCall(types) ==
    /\ phase = "input"
    /\ IF Len(InjectChars(types)) = 0
       THEN /\ phase' = "inject"
            /\ injection' = [NoInjection EXCEPT !.types = types, !.result = text]
       ELSE /\ phase' = "inject-loop"
            /\ injection' = [NoInjection EXCEPT !.types = types,
                                                !.chars = InjectChars(types),
                                                !.words = SplitWords(text)]
    /\ UNCHANGED <<text, options, detection, parts, cleaned, recleaned,
                   homoglyphs, anomalies, worker>>

\* one iteration of inject's loop; after the last one inject returns
InjectLoop ==
    /\ phase = "inject-loop"
    /\ injection.i < Len(injection.words)
    /\ LET word == injection.words[injection.i + 1]
           \* a draw is made only where the code calls Math.random()
           Drawn(called, draws) == IF called THEN draws ELSE {0}
       IN  \E r1 \in Drawn(injection.i < Len(injection.words) - 1, RandomDraws),
              r2 \in Drawn(Len(word) > 4, RandomDraws) :
             \E c1 \in Drawn(injection.i < Len(injection.words) - 1
                                 /\ BelowSixTenths(r1), CharDraws),
                p  \in Drawn(Len(word) > 4 /\ BelowThreeTenths(r2), RandomDraws),
                c2 \in Drawn(Len(word) > 4 /\ BelowThreeTenths(r2), CharDraws) :
                injection' = InjectIteration(injection, r1, c1, r2, p, c2)
    /\ phase' = IF injection.i + 1 < Len(injection.words)
                THEN "inject-loop" ELSE "inject"
    /\ UNCHANGED <<text, options, detection, parts, cleaned, recleaned,
                   homoglyphs, anomalies, worker>>

\* the service worker is installed and active; the engine is idle
InitWorker ==
    /\ text = <<>>
    /\ InitEngine
    /\ worker = InstalledWorker

\* the browser dispatches a fetch event
FetchEvent(request) ==
    /\ Len(worker.events) < MaxEvents
    /\ worker' = [worker EXCEPT !.events = Append(@, NewEvent(request))]
    /\ UNCHANGED <<text, phase, options, detection, parts, cleaned, recleaned,
                   homoglyphs, anomalies, injection>>

\* caches.match(event.request) settles: the cached response answers the
\* event, or the handler goes on to fetch(event.request)
Match(e) ==
    /\ worker.events[e].pc = "match"
    /\ LET cached == CachesMatch(worker.cache, worker.events[e].request)
       IN  worker' = [worker EXCEPT !.events[e] =
               IF cached # NoResponse
               THEN [@ EXCEPT !.cached = cached, !.answer = cached, !.pc = "done"]
               ELSE [@ EXCEPT !.pc = "fetch"]]
    /\ UNCHANGED <<text, phase, options, detection, parts, cleaned, recleaned,
                   homoglyphs, anomalies, injection>>

\* fetch(event.request) resolves: the response answers the event, and a
\* successful GET response is to be put into the cache
NetworkResponse(e, response) ==
    /\ worker.events[e].pc = "fetch"
    /\ worker' = [worker EXCEPT !.events[e] =
           [@ EXCEPT !.fetched = TRUE, !.response = response, !.answer = response,
                     !.pc = IF ShouldCache(worker.events[e].request, response)
                            THEN "put" ELSE "done"]]
    /\ UNCHANGED <<text, phase, options, detection, parts, cleaned, recleaned,
                   homoglyphs, anomalies, injection>>

\* fetch(event.request) rejects (offline): the catch handler looks up
\* './index.html' for a document and answers nothing otherwise
NetworkError(e) ==
    /\ worker.events[e].pc = "fetch"
    /\ worker' = [worker EXCEPT !.events[e] =
           [@ EXCEPT !.fetched = TRUE,
                     !.pc = IF worker.events[e].request.destination = "document"
                            THEN "fallback" ELSE "done"]]
    /\ UNCHANGED <<text, phase, options, detection, parts, cleaned, recleaned,
                   homoglyphs, anomalies, injection>>

\* caches.open(CACHE_NAME).then((cache) => cache.put(event.request, clone))
Put(e) ==
    /\ worker.events[e].pc = "put"
    /\ worker' = [worker EXCEPT
           !.cache[worker.events[e].request.url] = worker.events[e].response,
           !.events[e] = [@ EXCEPT !.wrote = TRUE, !.pc = "done"]]
    /\ UNCHANGED <<text, phase, options, detection, parts, cleaned, recleaned,
                   homoglyphs, anomalies, injection>>

\* caches.match('./index.html') of the offline fallback settles
Fallback(e) ==
    /\ worker.events[e].pc = "fallback"
    /\ worker' = [worker EXCEPT !.events[e] =
           [@ EXCEPT !.answer = worker.cache["./index.html"], !.pc = "done"]]
    /\ UNCHANGED <<text, phase, options, detection, parts, cleaned, recleaned,
                   homoglyphs, anomalies, injection>>

NextWorker ==
    \/ \E request \in FetchRequests : FetchEvent(request)
    \/ \E e \in DOMAIN worker.events : Match(e)
    \/ \E e \in DOMAIN worker.events, response \in NetworkResponses :
          NetworkResponse(e, response)
    \/ \E e \in DOMAIN worker.events : NetworkError(e)
    \/ \E e \in DOMAIN worker.events : Put(e)
    \/ \E e \in DOMAIN worker.events : Fallback(e)

SpecWorker == InitWorker /\ [][NextWorker]_vars

NextScan == \E opts \in DetectOptions : Detect(opts)

SpecScan == InitScan /\ [][NextScan]_vars

\* detect on raw UTF-16 code units
SpecUnitScan == InitUnits /\ [][NextScan]_vars

NextReveal == \E opts \in DetectOptions : Reveal(opts)

SpecReveal == InitReveal /\ [][NextReveal]_vars

NextClean == \E opts \in CleanOptions : Clean(opts)

SpecClean == InitClean /\ [][NextClean]_vars

NextReclean ==
    \/ \E opts \in CleanOptions : Clean(opts)
    \/ CleanAgain

SpecReclean == InitReclean /\ [][NextReclean]_vars

SpecUnits == InitUnits /\ [][NextClean]_vars

SpecFormatting == InitFormatting /\ [][NextClean]_vars

NextHomoglyphs == DetectHomoglyphs

SpecHomoglyphs == InitHomoglyphs /\ [][NextHomoglyphs]_vars

NextWhitespace == DetectWhitespaceAnomalies

SpecWhitespace == InitWhitespace /\ [][NextWhitespace]_vars

SpecLength == InitLength /\ [][NextClean]_vars

NextInject ==
    \/ \E types \in InjectTypes : InjectCall(types)
    \/ InjectLoop

SpecInject == InitInject /\ [][NextInject]_vars

(***************************************************************************)
(* Properties of detect (under SpecScan) and revealHTML (under SpecReveal). *)
(***************************************************************************)
\* the counts of the entries of a detection result
EntryCounts(d) == [k \in DOMAIN d.chars |-> d.chars[k].count]

\* the descriptor categories of the registry, read off the table
RegistryEntries == Range(INVISIBLE_CHARS)

CategoryOf(c) == (CHOOSE e \in RegistryEntries : e.ch = c).category

\* a code unit of the generic control ranges 0x00-0x08, 0x0B, 0x0E-0x1F, 0x7F,
\* 0x80-0x9F
GenericControl(c) == c \in (0..8) \cup {11} \cup (14..31) \cup {127} \cup (128..159)

\* what the detector is to count under includeFormatting = f
Counted(c, f) ==
    IF \E e \in RegistryEntries : e.ch = c
    THEN f \/ CategoryOf(c) # "formatting"
    ELSE GenericControl(c)

\* the includeFormatting setting in force in detect, and in revealHTML
DetectFormatting == options.includeFormatting = "true"

RevealFormatting == options.includeFormatting # "false"

\* C3: the total detect returns equals the sum of the counts of the entries of
\* the chars map it returns, for either includeFormatting setting.
C3_TotalIsSumOfCounts ==
    phase = "detect" => detection.total = SumSeq(EntryCounts(detection))

C3_Witness ==
    /\ phase = "detect"
    /\ Len(detection.chars) >= 2
    /\ detection.total > Len(detection.chars)
    /\ \E k \in DOMAIN detection.chars : detection.chars[k].info.category = "control"

\* C4: detect's total is exactly the number of positions holding a registered
\* character that passes the formatting filter or an unregistered generic
\* control code unit; formatting characters count only when includeFormatting
\* is set, and every other character counts zero.
C4_TotalCountsExactlyFlagged ==
    phase = "detect" =>
        detection.total =
            Cardinality({i \in DOMAIN text : Counted(text[i], DetectFormatting)})

C4_Witness ==
    /\ phase = "detect"
    /\ ~DetectFormatting
    /\ \E i, j, k \in DOMAIN text :
          /\ text[i] = 9
          /\ text[j] = 97
          /\ text[k] \in {27, 8203}
    /\ detection.total = 1

\* C5: in every entry detect returns for a character c, positions is strictly
\* increasing and holds exactly the zero-based indices i with text[i] = c that
\* were counted, and count = length of positions >= 1.
C5_EntryPositions ==
    phase = "detect" =>
        \A k \in DOMAIN detection.chars :
            LET e == detection.chars[k]
            IN  /\ \A a, b \in DOMAIN e.positions : a < b => e.positions[a] < e.positions[b]
                /\ Range(e.positions) =
                       {i - 1 : i \in {j \in DOMAIN text :
                            text[j] = e.ch /\ Counted(e.ch, DetectFormatting)}}
                /\ e.count = Len(e.positions)
                /\ e.count >= 1
                /\ \A j \in DOMAIN detection.chars : detection.chars[j].ch = e.ch => j = k

C5_Witness ==
    /\ phase = "detect"
    /\ text = <<97, 97, 8203, 97>>
    /\ Len(detection.chars) = 1
    /\ detection.chars[1].count = 1
    /\ detection.chars[1].positions = <<2>>
    /\ detection.chars[1].info.name = "Zero-Width Space"

\* HTML-unescaping: the inverse of the five standard escapes, read left to right
Entities == <<<<EntAmp, 38>>, <<EntLt, 60>>, <<EntGt, 62>>, <<EntQuot, 34>>, <<EntApos, 39>>>>

EntityStartsAt(s, i, k) ==
    /\ i + Len(Entities[k][1]) - 1 <= Len(s)
    /\ SubSeq(s, i, i + Len(Entities[k][1]) - 1) = Entities[k][1]

\* the entity that starts at position i, 0 when none does
EntityAt(s, i) ==
    IF s[i] = 38 /\ \E k \in DOMAIN Entities : EntityStartsAt(s, i, k)
    THEN CHOOSE k \in DOMAIN Entities : EntityStartsAt(s, i, k)
    ELSE 0

RECURSIVE UnescapeFrom(_, _)
UnescapeFrom(s, i) ==
    IF i > Len(s) THEN <<>>
    ELSE LET k == EntityAt(s, i)
         IN  IF k # 0
             THEN <<Entities[k][2]>> \o UnescapeFrom(s, i + Len(Entities[k][1]))
             ELSE <<s[i]>> \o UnescapeFrom(s, i + 1)

UnescapeHTML(s) == UnescapeFrom(s, 1)

VisibleParts(ps) == SelectSeq(ps, LAMBDA p : p.cls = "char-visible")

AnnotationParts(ps) == SelectSeq(ps, LAMBDA p : p.cls # "char-visible")

VisibleContents(ps) ==
    LET vs == VisibleParts(ps) IN Flatten([k \in DOMAIN vs |-> vs[k].body])

\* C9: with the annotation spans removed, HTML-unescaping the concatenated
\* contents of the visible-run spans of revealHTML's output gives exactly the
\* non-annotated characters of text, in order.
C9_RevealRoundTrip ==
    phase = "revealHTML" =>
        UnescapeHTML(VisibleContents(parts)) =
            SelectSeq(text, LAMBDA c : ~Counted(c, RevealFormatting))

C9_Witness ==
    /\ phase = "revealHTML"
    /\ Len(AnnotationParts(parts)) >= 1
    /\ Len(VisibleParts(parts)) = 2
    /\ \E i, j \in DOMAIN text : text[i] = 38 /\ text[j] \in {60, 62, 34, 39}

\* the k-th flagged character of a detection result, in text order
FlaggedPositions(d) == UNION {Range(d.chars[k].positions) : k \in DOMAIN d.chars}

FlaggedInfo(d, k) ==
    LET p == CHOOSE q \in FlaggedPositions(d) :
                 Cardinality({r \in FlaggedPositions(d) : r < q}) = k - 1
        e == CHOOSE j \in DOMAIN d.chars : p \in Range(d.chars[j].positions)
    IN  d.chars[e].info

\* C10: for an explicit includeFormatting value f, revealHTML emits one
\* annotation per character detect counts under f, in text order: as many
\* annotations as detect's total, the k-th carrying the name and the code
\* label of the k-th flagged character.
C10_AnnotationsMatchDetect ==
    (phase = "revealHTML" /\ options.includeFormatting \in {"true", "false"}) =>
        LET d    == detect(text, options)
            anns == AnnotationParts(parts)
        IN  /\ Len(anns) = d.total
            /\ Cardinality(FlaggedPositions(d)) = d.total
            /\ \A k \in DOMAIN anns :
                  /\ anns[k].name = FlaggedInfo(d, k).name
                  /\ anns[k].label = FlaggedInfo(d, k).code

C10_Witness ==
    /\ phase = "revealHTML"
    /\ options.includeFormatting = "false"
    /\ \E i, j, k \in DOMAIN text : i < j /\ text[i] = 27 /\ text[j] = 8203 /\ text[k] = 9
    /\ Len(AnnotationParts(parts)) = 2
    /\ AnnotationParts(parts)[1].label = "U+001B"
    /\ AnnotationParts(parts)[2].name = "Zero-Width Space"

\* the positions of text at which a maximal run of non-annotated characters
\* starts
VisibleRunStarts ==
    {i \in DOMAIN text :
        /\ ~Counted(text[i], RevealFormatting)
        /\ (i = 1 \/ Counted(text[i - 1], RevealFormatting))}

\* C21: revealHTML coalesces visible characters: its output has no two
\* adjacent visible-run spans and no empty visible-run span, and as many
\* visible-run spans as text has maximal runs of non-annotated characters.
C21_VisibleRunsCoalesced ==
    phase = "revealHTML" =>
        /\ \A k \in DOMAIN parts :
              parts[k].cls = "char-visible" =>
                  /\ parts[k].body # <<>>
                  /\ (k < Len(parts) => parts[k + 1].cls # "char-visible")
        /\ Len(VisibleParts(parts)) = Cardinality(VisibleRunStarts)

\* "aa", U+200B, "a": two runs, the first of two characters
C21_Witness ==
    /\ phase = "revealHTML"
    /\ text = <<97, 97, 8203, 97>>
    /\ Len(parts) = 3
    /\ parts[1] = VisiblePart(<<97, 97>>)
    /\ parts[2].cls = "char-hidden"
    /\ parts[3] = VisiblePart(<<97>>)

(***************************************************************************)
(* Properties of clean, checked under SpecClean and SpecReclean.           *)
(***************************************************************************)
OnlyFormattingOff == [NoOptions EXCEPT !.includeFormatting = "false"]

\* C1: no character that detect(text, {includeFormatting: false}) counts (a
\* registered non-formatting character or a generic control code unit) occurs
\* in the output of clean with default options; equivalently
\* detect(clean(text), {includeFormatting: false}).total = 0.
C1_CleanLeavesNothingDetectable ==
    (phase = "clean" /\ options = NoOptions) =>
        /\ \A i \in DOMAIN cleaned : ~Counted(cleaned[i], FALSE)
        /\ detect(cleaned, OnlyFormattingOff).total = 0

C1_Witness ==
    /\ phase = "clean"
    /\ options = NoOptions
    /\ detect(text, OnlyFormattingOff).total = 2
    /\ \E i, j \in DOMAIN text : text[i] = 127 /\ text[j] \in {8203, 8195}
    /\ cleaned = <<97>>

\* C2: for every text and every fixed option set, cleaning the output of clean
\* again with the same options changes nothing.
C2_CleanIdempotent ==
    phase = "clean-again" => recleaned = cleaned

\* C6: for every option set, no line of the output of clean ends in a space
\* or a tab and the output has no two consecutive U+0020; hence
\* detectWhitespaceAnomalies reports neither a trailing-space nor a
\* double-space issue on it.
C6_NoTrailingNoDoubleSpace ==
    phase = "clean" =>
        /\ \A i \in DOMAIN cleaned :
              cleaned[i] \in {32, 9} => (i < Len(cleaned) /\ cleaned[i + 1] \notin {10, 13})
        /\ \A i \in DOMAIN cleaned :
              (cleaned[i] = 32 /\ i < Len(cleaned)) => cleaned[i + 1] # 32
        /\ \A k \in DOMAIN detectWhitespaceAnomalies(cleaned).issues :
              detectWhitespaceAnomalies(cleaned).issues[k].type
                  \notin {"trailing-space", "double-space"}

C6_Witness ==
    /\ phase = "clean"
    /\ \E i \in DOMAIN text : i < Len(text) /\ text[i] \in {32, 9} /\ text[i + 1] = 10
    /\ \E i \in DOMAIN text :
          /\ 1 < i /\ i + 2 <= Len(text)
          /\ text[i - 1] = 97 /\ text[i] = 32 /\ text[i + 1] = 32 /\ text[i + 2] = 97
    /\ cleaned = <<97, 32, 97, 10>>
    /\ \E k \in DOMAIN detectWhitespaceAnomalies(text).issues :
          detectWhitespaceAnomalies(text).issues[k].type = "trailing-space"

\* the exempt curly quotes and dashes
ExemptQuotesAndDashes == {8216, 8217, 8220, 8221, 8211, 8212}

\* the keys of the Homoglyph Table that are not exempt
NonExemptKeys == HomoglyphKeys \ ({160} \cup ExemptQuotesAndDashes)

\* C7: the output of clean(text, {fixHomoglyphs: true}) holds no Homoglyph
\* Table character other than the exempt ones, so detectHomoglyphs finds
\* nothing in it, and the exempt curly quotes and dashes of the text are all
\* still there, unreplaced.
C7_NoHomoglyphLeftExemptKept ==
    (phase = "clean" /\ options.fixHomoglyphs = "true" /\ options.stripHTML # "true") =>
        /\ \A i \in DOMAIN cleaned : cleaned[i] \notin NonExemptKeys
        /\ detectHomoglyphs(cleaned).total = 0
        /\ SelectSeq(cleaned, LAMBDA c : c \in ExemptQuotesAndDashes)
               = SelectSeq(text, LAMBDA c : c \in ExemptQuotesAndDashes)

C7_Witness ==
    /\ phase = "clean"
    /\ options.fixHomoglyphs = "true"
    /\ options.stripHTML # "true"
    /\ detectHomoglyphs(text).total >= 1
    /\ \E i, j \in DOMAIN text : text[i] = 1072 /\ text[j] = 8217
    /\ \E i, j \in DOMAIN cleaned : cleaned[i] = 97 /\ cleaned[j] = 8217

\* the text with every Homoglyph Table key that is not exempt replaced by its
\* plain equivalent
Folded(txt) ==
    [i \in DOMAIN txt |->
        IF txt[i] \in NonExemptKeys
        THEN (CHOOSE k \in Range(HOMOGLYPHS) : k[1] = txt[i])[2]
        ELSE txt[i]]

\* C8: for every non-exempt key c of the Homoglyph Table (U+2011 and the
\* special spaces such as U+2003 included) and every text of ordinary letters
\* in which c occurs (here: between letters), clean(text, {fixHomoglyphs: true})
\* is the text with each c replaced by its plain equivalent HOMOGLYPHS[c].
C8_EveryKeyFolded ==
    ( /\ phase = "clean"
      /\ options.fixHomoglyphs = "true"
      /\ options.stripHTML # "true"
      /\ \A i \in DOMAIN text : text[i] = 97 \/ text[i] \in NonExemptKeys
      /\ \E i \in DOMAIN text : text[i] \in NonExemptKeys
      /\ Len(text) >= 3 /\ text[1] = 97 /\ text[Len(text)] = 97 )
    => cleaned = Folded(text)

(***************************************************************************)
(* Properties of inject, checked under SpecInject.                         *)
(***************************************************************************)
\* C11: inject called with all four type flags disabled or missing returns the
\* input text and count 0, whatever the random choices: it returns before it
\* draws any.
C11_NoTypesNoInjection ==
    (phase \in {"inject", "inject-loop"}
        /\ \A t \in {"zwsp", "zwnj", "bom", "invisSep"} : injection.types[t] # "true")
    => /\ phase = "inject"
       /\ injection.result = text
       /\ injection.count = 0
       /\ injection.i = 0

C11_Witness ==
    /\ phase = "inject"
    /\ injection.types.zwsp = "false"
    /\ injection.types.bom = "undefined"
    /\ \A t \in {"zwsp", "zwnj", "bom", "invisSep"} : injection.types[t] # "true"
    /\ text = <<97, 98, 99, 100, 101, 32, 97>>
    /\ injection.result = text
    /\ injection.count = 0

\* the characters of the enabled types: zwsp U+200B, zwnj U+200C, bom
\* U+FEFF, invisSep U+2061-U+2064
EnabledCharacters(types) ==
    (IF types.zwsp = "true" THEN {8203} ELSE {})
        \cup (IF types.zwnj = "true" THEN {8204} ELSE {})
        \cup (IF types.bom = "true" THEN {65279} ELSE {})
        \cup (IF types.invisSep = "true" THEN 8289..8292 ELSE {})

\* the positions of inject's result that hold an inserted character (the
\* texts handed to inject hold none of the characters inject inserts)
InsertedPositions ==
    {k \in DOMAIN injection.result :
        injection.result[k] \in EnabledCharacters(injection.types)}

\* C22: for every text, every non-empty enabled type set and every outcome
\* of the random choices, inject's count is the number of characters it
\* inserted: the result is count longer than text, count of its characters
\* are of the enabled types, and without them the result is text.
C22_CountIsInsertions ==
    (phase = "inject" /\ EnabledCharacters(injection.types) # {}) =>
        LET enabled  == EnabledCharacters(injection.types)
            inserted == SelectSeq(injection.result, LAMBDA c : c \in enabled)
            others   == SelectSeq(injection.result, LAMBDA c : c \notin enabled)
        IN  /\ Len(injection.result) = Len(text) + injection.count
            /\ Len(inserted) = injection.count
            /\ others = text

\* "abcde a" with one insertion inside the word and one after it
C22_Witness ==
    /\ phase = "inject"
    /\ injection.types = [NoTypes EXCEPT !.zwsp = "true"]
    /\ text = <<97, 98, 99, 100, 101, 32, 97>>
    /\ injection.count = 2
    /\ injection.result = <<97, 98, 8203, 99, 100, 101, 8203, 32, 97>>

(***************************************************************************)
(* Claims about clean on raw UTF-16 code units (specification SpecUnits)   *)
(***************************************************************************)
\* position i of s starts a surrogate pair that encodes a Tag character
\* (U+E0001-U+E007F: U+DB40 then U+DC01-U+DC7F) or a Variation Selector
\* Supplement character (U+E0100-U+E01EF: U+DB40 then U+DD00-U+DDEF)
TagOrSelectorPairAt(s, i) ==
    /\ i < Len(s)
    /\ s[i] = 56128
    /\ (s[i + 1] \in 56321..56447 \/ s[i + 1] \in 56576..56815)

\* C12: for every text and every option set, the output of clean contains no
\* surrogate pair that encodes a Tag character or a Variation Selector
\* Supplement character.
C12_NoSupplementaryPairLeft ==
    phase = "clean" => \A i \in DOMAIN cleaned : ~TagOrSelectorPairAt(cleaned, i)

(***************************************************************************)
(* Claims about the formatting characters under clean (SpecFormatting)     *)
(***************************************************************************)
\* tab, line feed, form feed, carriage return
FormattingChars == {9, 10, 12, 13}

FormattingOf(s) == SelectSeq(s, LAMBDA c : c \in FormattingChars)

StrippedUnit(c) == (c \in RegisteredChars /\ CategoryOf(c) # "formatting") \/ GenericControl(c)

\* the tab at position i belongs to trailing whitespace: up to the next line
\* feed, carriage return or the end of the text there are only spaces, tabs
\* and stripped characters
TrailingTab(s, i) ==
    /\ s[i] = 9
    /\ \E j \in i..Len(s) :
          /\ j = Len(s) \/ s[j + 1] \in {10, 13}
          /\ \A k \in i..j : s[k] \in {9, 32} \/ StrippedUnit(s[k])

\* the formatting characters of s from position i on, trailing tabs left out
RECURSIVE KeptFormattingFrom(_, _)
KeptFormattingFrom(s, i) ==
    IF i > Len(s) THEN <<>>
    ELSE IF s[i] \in FormattingChars /\ ~TrailingTab(s, i)
         THEN <<s[i]>> \o KeptFormattingFrom(s, i + 1)
         ELSE KeptFormattingFrom(s, i + 1)

ExemptCharacters == {160, 8211, 8212, 8216, 8217, 8220, 8221}

\* C14: detectHomoglyphs(text).total is the number of positions that hold a
\* key of the homoglyph table other than an exempt character, and the sum of
\* the entries' counts; each entry's replacement is the table's mapping for
\* its character, and no entry is for an exempt character.
C14_HomoglyphInventory ==
    phase = "detectHomoglyphs" =>
        /\ homoglyphs.total =
               Cardinality({i \in DOMAIN text :
                               text[i] \in HomoglyphKeys \ ExemptCharacters})
        /\ homoglyphs.total = SumSeq(EntryCounts(homoglyphs))
        /\ \A k \in DOMAIN homoglyphs.chars :
              /\ <<homoglyphs.chars[k].ch, homoglyphs.chars[k].replacement>>
                     \in Range(HOMOGLYPHS)
              /\ homoglyphs.chars[k].ch \notin ExemptCharacters

C14_Witness ==
    /\ phase = "detectHomoglyphs"
    /\ text = <<1072, 8211, 1072, 8195>>
    /\ homoglyphs.total = 3
    /\ Len(homoglyphs.chars) = 2
    /\ homoglyphs.chars[1].replacement = 97
    /\ homoglyphs.chars[2].replacement = 32

(***************************************************************************)
(* Claims about detectWhitespaceAnomalies (specification SpecWhitespace)   *)
(***************************************************************************)
IssueCounts(a) == [k \in DOMAIN a.issues |-> a.issues[k].count]

\* C15: detectWhitespaceAnomalies(text).total is the sum of the counts of
\* the returned issues, and every returned issue has a count of at least 1.
C15_TotalIsSumOfIssueCounts ==
    phase = "detectWhitespaceAnomalies" =>
        /\ anomalies.total = SumSeq(IssueCounts(anomalies))
        /\ \A k \in DOMAIN anomalies.issues : anomalies.issues[k].count >= 1

C15_Witness ==
    /\ phase = "detectWhitespaceAnomalies"
    /\ text = <<32, 13, 10, 10>>
    /\ Len(anomalies.issues) = 2
    /\ anomalies.issues[1].type = "trailing-space"
    /\ anomalies.issues[2].type = "mixed-endings"
    /\ anomalies.total = 2

\* the code units that count as white space next to a run of spaces: the
\* ECMAScript WhiteSpace and LineTerminator code points
WhiteSpaceUnits ==
    {9, 10, 11, 12, 13, 32, 160, 5760, 8192, 8193, 8194, 8195, 8196, 8197,
     8198, 8199, 8200, 8201, 8202, 8232, 8233, 8239, 8287, 12288, 65279}

\* the runs i..j of two or more U+0020 of s that lie strictly between two
\* characters that are not white space (such a run is maximal)
EnclosedSpaceRuns(s) ==
    {r \in (DOMAIN s) \X (DOMAIN s) :
        /\ r[2] > r[1]
        /\ \A k \in r[1]..r[2] : s[k] = 32
        /\ r[1] > 1
        /\ r[2] < Len(s)
        /\ s[r[1] - 1] \notin WhiteSpaceUnits
        /\ s[r[2] + 1] \notin WhiteSpaceUnits}

DoubleSpaceIssues(a) == SelectSeq(a.issues, LAMBDA e : e.type = "double-space")

\* C16: the double-space issue's count is the number of maximal runs of two
\* or more U+0020 that lie strictly between two non-space (non-whitespace)
\* characters; runs at the start or at the end of a line are not counted,
\* and there is no double-space issue when that number is zero.
C16_DoubleSpaceCount ==
    phase = "detectWhitespaceAnomalies" =>
        LET n == Cardinality(EnclosedSpaceRuns(text))
        IN  IF n = 0
            THEN DoubleSpaceIssues(anomalies) = <<>>
            ELSE /\ Len(DoubleSpaceIssues(anomalies)) = 1
                 /\ DoubleSpaceIssues(anomalies)[1].count = n

\* "a  a  a": two runs, one issue
C16_Witness ==
    /\ phase = "detectWhitespaceAnomalies"
    /\ text = <<97, 32, 32, 97, 32, 32, 97>>
    /\ Len(anomalies.issues) = 1
    /\ anomalies.issues[1] = [type |-> "double-space", count |-> 2,
                              description |-> "Multiple consecutive spaces"]

\* high (leading) and low (trailing) surrogate code units
HighSurrogate(c) == c \in 55296..56319

LowSurrogate(c) == c \in 56320..57343

\* C18: for every text, unpaired surrogates included, and every option set,
\* the output of clean is a valid sequence of Unicode scalar values: every
\* high surrogate is immediately followed by a low surrogate and every low
\* surrogate is immediately preceded by a high surrogate.
C18_OutputWellFormed ==
    phase = "clean" =>
        \A i \in DOMAIN cleaned :
            /\ HighSurrogate(cleaned[i])
                   => (i < Len(cleaned) /\ LowSurrogate(cleaned[i + 1]))
            /\ LowSurrogate(cleaned[i])
                   => (i > 1 /\ HighSurrogate(cleaned[i - 1]))

\* out from position j on is what is left of s from position i on when only
\* positions of the set removable are taken out
RECURSIVE KeptWithin(_, _, _, _, _)
KeptWithin(out, j, s, i, removable) ==
    IF i > Len(s) THEN j > Len(out)
    ELSE \/ j <= Len(out) /\ out[j] = s[i] /\ KeptWithin(out, j + 1, s, i + 1, removable)
         \/ i \in removable /\ KeptWithin(out, j, s, i + 1, removable)

\* position i of s holds a strippable registry character, a generic control
\* character, a code unit of a Tag or Variation Selector Supplement surrogate
\* pair of s, a U+0020 or a tab
ListedCharacter(s, i) ==
    \/ StrippedUnit(s[i])
    \/ TagOrSelectorPairAt(s, i)
    \/ (i > 1 /\ TagOrSelectorPairAt(s, i - 1))
    \/ s[i] \in {32, 9}

\* C20 (as stated): clean(text, {normalize: false}) with fixHomoglyphs and
\* stripHTML off is a subsequence of text, and every character of text that
\* is missing from it is a strippable registry character, a generic control
\* character, a Tag or Variation Selector Supplement surrogate pair, a
\* U+0020 or a tab.
C20_OnlyListedCharactersMissing ==
    (phase = "clean" /\ options = [NoOptions EXCEPT !.normalize = "false"])
        => KeptWithin(cleaned, 1, text, 1, {i \in DOMAIN text : ListedCharacter(text, i)})

\* positions h < l of s hold the two code units of a Tag or Variation
\* Selector Supplement pair with nothing but stripped characters in between
PairAcrossStripped(s, h, l) ==
    /\ h < l
    /\ TagOrSelectorPairAt(<<s[h], s[l]>>, 1)
    /\ \A m \in (h + 1)..(l - 1) : StrippedUnit(s[m])

ListedOrJoinedPair(s, i) ==
    \/ StrippedUnit(s[i])
    \/ \E k \in DOMAIN s : PairAcrossStripped(s, i, k) \/ PairAcrossStripped(s, k, i)
    \/ s[i] \in {32, 9}

\* C20 (amended): the same, where the two code units of a removed Tag or
\* Variation Selector Supplement pair need only be adjacent once the
\* stripped characters between them are taken out.
C20_OnlyStrippedCharactersMissing ==
    (phase = "clean" /\ options = [NoOptions EXCEPT !.normalize = "false"])
        => KeptWithin(cleaned, 1, text, 1, {i \in DOMAIN text : ListedOrJoinedPair(text, i)})

C20_Witness ==
    /\ phase = "clean"
    /\ options = [NoOptions EXCEPT !.normalize = "false"]
    /\ text = <<56128, 8203, 56321, 2392>>
    /\ cleaned = <<2392>>

(***************************************************************************)
(* Claims about detect on raw UTF-16 code units (specification             *)
(* SpecUnitScan)                                                           *)
(***************************************************************************)
\* C17: for every text that contains a Tag character or a Variation Selector
\* Supplement character (as a surrogate pair), detect reports it: total >= 1.
C17_TagCharactersReported ==
    (phase = "detect" /\ \E i \in DOMAIN text : TagOrSelectorPairAt(text, i))
        => detection.total >= 1

(***************************************************************************)
(* Claims about the length of clean's output (specification SpecLength)    *)
(***************************************************************************)
\* C19 (as stated): for every text and every option set the length of
\* clean(text, options) is at most the length of text.
C19_NeverLonger ==
    phase = "clean" => Len(cleaned) <= Len(text)

\* C19 (amended): for every text and every option set with normalize:
\* false, the length of clean(text, options) is at most the length of text.
C19_NeverLongerUnnormalized ==
    (phase = "clean" /\ options.normalize = "false")
        => Len(cleaned) <= Len(text)

\* "<" U+0958 "&nbsp;" with stripHTML and without normalization
C19_Witness ==
    /\ phase = "clean"
    /\ options = [NoOptions EXCEPT !.normalize = "false", !.stripHTML = "true"]
    /\ text = <<60, 2392>> \o PatNbsp
    /\ cleaned = <<60, 2392>>

(***************************************************************************)
(* Where inject places its characters (specification SpecInject)           *)
(***************************************************************************)
\* the number of characters of text that precede position k of the result
OriginalBefore(k) ==
    Cardinality({m \in 1..(k - 1) : m \notin InsertedPositions})

\* the place after the first g characters of s is a boundary between a word
\* and an adjacent whitespace run (the word may be the empty one at the
\* start or at the end of s)
WordBoundary(s, g) ==
    \/ g = 0 /\ s # <<>> /\ s[1] \in WhiteSpaceUnits
    \/ g = Len(s) /\ s # <<>> /\ s[g] \in WhiteSpaceUnits
    \/ /\ 0 < g /\ g < Len(s)
       /\ (s[g] \in WhiteSpaceUnits) # (s[g + 1] \in WhiteSpaceUnits)

\* the place after the first g characters of s is strictly inside a word of
\* non-whitespace characters that is longer than 4
InsideLongWord(s, g) ==
    \E a, b \in DOMAIN s :
        /\ a <= g /\ g < b
        /\ b - a + 1 > 4
        /\ \A m \in a..b : s[m] \notin WhiteSpaceUnits

\* C23: each character inject inserts is placed at a boundary between a word
\* and an adjacent whitespace run, or strictly inside a non-whitespace word
\* longer than 4 characters; none is inserted inside a whitespace run
\* (stated here for the texts that begin and end with a letter).
C23_InsertionPlaces ==
    (phase = "inject" /\ text # <<>> /\ text[1] = 97 /\ text[Len(text)] = 97) =>
        \A k \in InsertedPositions :
            \/ WordBoundary(text, OriginalBefore(k))
            \/ InsideLongWord(text, OriginalBefore(k))

(***************************************************************************)
(* The service worker's cache (specification SpecWorker)                   *)
(***************************************************************************)
\* the event has had a cache miss for a GET request and a network response
\* of status 200
MissedGetAnswered200(ev) ==
    /\ ev.pc # "match"
    /\ ev.cached = NoResponse
    /\ ev.fetched
    /\ ev.request.method = "GET"
    /\ ev.response.status = 200

\* no event has written without such a miss, and an event with a cached match
\* is answered with it and neither fetches nor writes
WritesFollowMisses ==
    \A e \in DOMAIN worker.events :
        LET ev == worker.events[e]
        IN  /\ ev.wrote => MissedGetAnswered200(ev)
            /\ ev.cached # NoResponse =>
                  /\ ev.answer = ev.cached
                  /\ ~ev.fetched
                  /\ ~ev.wrote
                  /\ ev.pc = "done"

\* a step that changes the cache stores, under the URL of such an event, the
\* response the network gave it
CacheChangeIsSuchAWrite ==
    worker'.cache # worker.cache =>
        \E e \in DOMAIN worker.events :
            /\ MissedGetAnswered200(worker.events[e])
            /\ worker'.cache = [worker.cache EXCEPT
                   ![worker.events[e].request.url] = worker.events[e].response]

\* C24: across every sequence and interleaving of fetch events, a response
\* is written into the cache only after a cache miss for a GET request whose
\* network response has status 200, and a request with a cached match is
\* answered with the cached response, with no network fetch and no write.
C24_CacheWrittenOnlyAfterMiss ==
    []WritesFollowMisses /\ [][CacheChangeIsSuchAWrite]_vars

\* one event answered from the cache, another one has written its response
C24_Witness ==
    /\ Len(worker.events) = 2
    /\ worker.events[1].request.url = "./index.html"
    /\ worker.events[1].answer = InstalledResponse
    /\ worker.events[1].pc = "done"
    /\ worker.events[2].request.url = "./api/report"
    /\ worker.events[2].wrote
    /\ worker.cache["./api/report"] = [status |-> 200, body |-> "network"]

=============================================================================
